---- MODULE Spec2Model ----
(***************************************************************************)
(* Model of timevariants (src/unnamed/part_001): a sequential harness that *)
(* reads variants.txt, generates a clean script and a build script, and    *)
(* for every variant runs clean / warmup / prime / timed builds, writing   *)
(* one benchmark record per timed build to the variant's output file.      *)
(*                                                                         *)
(* Strings are sequences of one-character strings, so that strings.Split,  *)
(* fmt.Sscanf and fmt.Sprintf are modelled by what they do to the text.    *)
(* A file is a sequence of lines; the file systems (output files, the two  *)
(* temporary scripts) are functions from a name to a content.              *)
(***************************************************************************)
EXTENDS Integers, Sequences, FiniteSets, TLC

\* ------------------------------------------------------------------ bounds
\* Largest value of the -n flag (numitflag) explored.
MaxIt == 2

\* Longest base environment handed to addGoMaxProcsEnv on its own.
MaxEnvLen == 3

\* ------------------------------------------------------- program constants
prog == "kubelet"

progpath == "k8s.io/kubernetes/cmd/kubelet"

\* ------------------------------------------------------------ environment
\* Toolchain roots for which <goroot>/bin/go can be opened.
GoCmdOk == { <<"r">>, <<"s">> }

\* Combined output of `git -C <goroot> log -1 --oneline` when it succeeds.
GitOutputs == { <<"f", "0", " ", "m">>, << >> }

\* Wall-clock durations (ns) a timed invocation may measure.
Durations == { 7, 9 }

\* Ambient process environment (os.Environ()), entries as <<name, value>>.
Ambient == << <<"A", 1>>, <<"GOMAXPROCS", 4>>, <<"B", 2>> >>

\* A line left in an output file by an earlier run of the harness.
StaleLine == << <<"Benchmark", "R", "elink", "Kubelet">>, 1, 5, "ns/op" >>

\* ---------------------------------------------------- lines of variants.txt
Blank == << >>
Comment == <<"#", "c">>
L_a == <<"a", ":", "r">>
L_a2 == <<"a", ":", "s">>
L_b3 == <<"b", ":", "s", ":", "-", "x", " ", "-", "y">>
L_c4 == <<"c", ":", "r", ":", "-", "x", ":", "2">>
L_c0 == <<"c", ":", "r", ":", "-", "x", ":", "0">>
L_cz == <<"c", ":", "r", ":", "-", "x", ":", "z">>
L_cneg == <<"c", ":", "r", ":", "-", "x", ":", "-", "1">>
L_cE == <<"c", ":", "s", ":", "-", "x", ":">>
L_c2x == <<"c", ":", "s", ":", ":", " ", "2", "z">>
L_d == <<"d", ":", "q">>
L_1 == <<"a">>
L_5 == <<"a", ":", "r", ":", "x", ":", "1", ":", "y">>

\* The variants.txt files explored.
Configs ==
  { << >>,
    << Blank, Comment >>,
    << L_a >>,
    << Comment, Blank, L_b3 >>,
    << L_c4, L_a >>,
    << L_a, L_a2 >>,
    << L_a, L_1 >>,
    << Blank, Comment, L_5 >>,
    << L_c0 >>,
    << L_a, L_cz >>,
    << L_cneg >>,
    << L_cE >>,
    << L_a, L_d >>,
    << L_c2x >> }

\* ---------------------------------------------------------- string helpers
RECURSIVE SplitFrom(_, _, _)
\* Tokens of s[i..] separated by sep, the current token being cur.
SplitFrom(s, sep, cur) ==
  IF s = << >> THEN << cur >>
  ELSE IF Head(s) = sep THEN << cur >> \o SplitFrom(Tail(s), sep, << >>)
  ELSE SplitFrom(Tail(s), sep, Append(cur, Head(s)))

\* strings.Split(s, sep) for a one-character separator.
Split(s, sep) == SplitFrom(s, sep, << >>)

RECURSIVE NonEmpty(_)
\* The non-empty tokens of a token list, in order.
NonEmpty(t) ==
  IF t = << >> THEN << >>
  ELSE IF Head(t) = << >> THEN NonEmpty(Tail(t))
  ELSE << Head(t) >> \o NonEmpty(Tail(t))

\* strings.Fields(s): the maximal runs of non-space characters.
Fields(s) == NonEmpty(Split(s, " "))

Digits == { "0", "1", "2", "3", "4", "5", "6", "7", "8", "9" }

DigitVal(c) ==
  CASE c = "0" -> 0 [] c = "1" -> 1 [] c = "2" -> 2 [] c = "3" -> 3
    [] c = "4" -> 4 [] c = "5" -> 5 [] c = "6" -> 6 [] c = "7" -> 7
    [] c = "8" -> 8 [] c = "9" -> 9

RECURSIVE SkipSpace(_)
SkipSpace(s) == IF s # << >> /\ Head(s) = " " THEN SkipSpace(Tail(s)) ELSE s

RECURSIVE ScanDigits(_, _, _)
\* Longest run of leading digits of s: [n |-> how many, val |-> their value].
ScanDigits(s, n, acc) ==
  IF s # << >> /\ Head(s) \in Digits
  THEN ScanDigits(Tail(s), n + 1, acc * 10 + DigitVal(Head(s)))
  ELSE [n |-> n, val |-> acc]

\* fmt.Sscanf(s, "%d", &x): skips leading blanks, accepts one sign, then
\* reads the longest run of digits; text after the digits is left unread
\* and is no error.  [ok |-> n = 1 /\ err = nil, val |-> x].
Sscanf_d(s) ==
  LET t == SkipSpace(s)
      signed == t # << >> /\ Head(t) \in { "+", "-" }
      neg == t # << >> /\ Head(t) = "-"
      u == IF signed THEN Tail(t) ELSE t
      d == ScanDigits(u, 0, 0)
  IN IF d.n = 0 THEN [ok |-> FALSE, val |-> 0]
     ELSE [ok |-> TRUE, val |-> IF neg THEN 0 - d.val ELSE d.val]

\* strings.ToUpper of the first letter of the run tag.
ToUpper(c) == CASE c = "r" -> "R" [] OTHER -> c

Range(s) == { s[i] : i \in 1..Len(s) }

IsPrefix(s, t) == Len(s) <= Len(t) /\ SubSeq(t, 1, Len(s)) = s

\* ------------------------------------------------------------------ state
VARIABLES
  config,      \* content of variants.txt: a sequence of lines
  flag,        \* the command-line flags
  pc,          \* position of the (single) thread of control
  lineIdx,     \* index of the next line the scanner returns
  lineNum,     \* readvariants' lineNum counter
  variants,    \* the global variants slice
  tags,        \* readvariants' tags map (its key set)
  roots,       \* readvariants' roots map (its key set)
  fatal,       \* "none", or the kind of the error passed to log.Fatal
  stderr,      \* everything written to os.Stderr (log output included)
  tmp,         \* the temporary script files: name -> content
  vi,          \* index of the variant a range loop is at
  it,          \* loop counter i of the timing loop in progress
  fn,          \* doVariant's fn: name of the current variant's output file
  outf,        \* doVariant's outf: "none", "stderr" or an output file name
  fs,          \* the output files on disk: name -> sequence of lines
  opened,      \* history: output files opened by doVariant, in order
  procs,       \* history: every process launched, in order
  acts,        \* history: steps doVariant has taken for the current variant
  okTimed,     \* history: per variant, <<name, d>> of each successful timed run
  closedSnap,  \* history: per closed output file, its content at Close
  pre,         \* history: fs and stderr at the latest call of runCmd
  overlay      \* a call of addGoMaxProcsEnv on its own: arguments and result

vars == << config, flag, pc, lineIdx, lineNum, variants, tags, roots, fatal,
           stderr, tmp, vi, it, fn, outf, fs, opened, procs, acts, okTimed,
           closedSnap, pre, overlay >>

loaderVars == << lineIdx, lineNum, variants, tags, roots >>

runVars == << tmp, it, fn, outf, fs, opened, procs, acts, okTimed, closedSnap, pre >>

\* The flag settings explored (-P and -preservetmp are switched together).
Flags ==
  { f \in [ verb : BOOLEAN, build : BOOLEAN, numit : -1..MaxIt,
            nodebug : BOOLEAN, dryrun : BOOLEAN, perflock : BOOLEAN,
            preservetmp : BOOLEAN ] : f.perflock = f.preservetmp }

\* A temporary script file that does not exist.
NoScript == [exists |-> FALSE, text |-> << >>]

\* Values of outf that are not an output file.
NoFile == << "none" >>

StderrF == << "stderr" >>

\* No call of addGoMaxProcsEnv on its own is being looked at.
NoOverlay == [base |-> << >>, p |-> 0, out |-> << >>, called |-> FALSE]

\* Output files present before the harness starts (left by an earlier run).
InitFs == [ n \in { <<"out", ".", "a", ".", "f", "0", ".", "txt">> } |-> << StaleLine >> ]

Init ==
  /\ config \in Configs
  /\ flag \in Flags
  /\ pc = "start"
  /\ lineIdx = 1
  /\ lineNum = 1
  /\ variants = << >>
  /\ tags = { }
  /\ roots = { }
  /\ fatal = "none"
  /\ stderr = << >>
  /\ tmp = [clean |-> NoScript, script |-> NoScript]
  /\ vi = 1
  /\ it = 0
  /\ fn = NoFile
  /\ outf = NoFile
  /\ fs = InitFs
  /\ opened = << >>
  /\ procs = << >>
  /\ acts = << >>
  /\ okTimed = << >>
  /\ closedSnap = << >>
  /\ pre = [fs |-> InitFs, stderr |-> << >>]
  /\ overlay = NoOverlay

\* log.Fatal / log.Fatalf: one diagnostic on stderr, then os.Exit(1).
LogFatal(kind, msgs) ==
  /\ fatal' = kind
  /\ stderr' = stderr \o msgs
  /\ pc' = "exit"

\* --------------------------------------------------------- readvariants
\* os.Open("variants.txt")
OpenConfig ==
  /\ pc = "start"
  /\ \E ok \in BOOLEAN :
       IF ok THEN /\ pc' = "read"
                  /\ UNCHANGED << fatal, stderr >>
       ELSE LogFatal("noconfig", << <<"fatal", <<"noconfig">> >> >>)
  /\ UNCHANGED << overlay, config, flag, loaderVars, vi, runVars >>

\* Variant of FieldCountOk for a loader that knows no fourth field.
FieldCountOk_No4(n) == n \in { 2, 3 }

\* The switch on len(tokens): the field count is accepted.
FieldCountOk(n) == n \in { 2, 3, 4 }

\* The GOMAXPROCS field of a line is validated only when it is not "".
GomaxpChecked(gomaxps) == gomaxps # << >>

\* Variant of DupTag for a loader without the duplicate test.
DupTag_Never(tag, seen) == FALSE

\* The tags map already holds the tag.
DupTag(tag, seen) == tag \in seen

\* One iteration of the scanner loop.
ReadLine ==
  /\ pc = "read"
  /\ lineIdx <= Len(config)
  /\ lineIdx' = lineIdx + 1
  /\ LET line == config[lineIdx]
         tokens == Split(line, ":")
         n == Len(tokens)
         extras == IF n \in { 3, 4 } THEN tokens[3] ELSE << >>
         gomaxps == IF n = 4 THEN tokens[4] ELSE << >>
         tag == tokens[1]
         goroot == tokens[2]
         sc == Sscanf_d(gomaxps)
         gomaxp == IF GomaxpChecked(gomaxps) THEN sc.val ELSE 0
         v == [tag |-> tag, goroot |-> goroot, extras |-> extras, gomaxp |-> gomaxp]
     IN IF Len(line) = 0
        THEN UNCHANGED << pc, lineNum, variants, tags, roots, fatal, stderr >>
        ELSE IF line[1] = "#"
        THEN /\ lineNum' = lineNum + 1
             /\ UNCHANGED << pc, variants, tags, roots, fatal, stderr >>
        ELSE IF ~FieldCountOk(n)
        THEN /\ LogFatal("malformed", << <<"fatal", <<"malformed", lineNum, n>> >> >>)
             /\ UNCHANGED << lineNum, variants, tags, roots >>
        ELSE IF GomaxpChecked(gomaxps) /\ ~sc.ok
        THEN /\ LogFatal("badgomaxp", << <<"fatal", <<"badgomaxp", tag>> >> >>)
             /\ UNCHANGED << lineNum, variants, tags, roots >>
        ELSE IF GomaxpChecked(gomaxps) /\ gomaxp < 1
        THEN /\ LogFatal("invalidgomaxp", << <<"fatal", <<"invalidgomaxp", tag>> >> >>)
             /\ UNCHANGED << lineNum, variants, tags, roots >>
        ELSE /\ variants' = Append(variants, v)
             /\ IF DupTag(tag, tags)
                THEN /\ LogFatal("duptag", << <<"fatal", <<"duptag", tag>> >> >>)
                     /\ UNCHANGED << lineNum, tags, roots >>
                ELSE /\ tags' = tags \cup { tag }
                     /\ roots' = roots \cup { goroot }
                     /\ stderr' = IF goroot \in roots
                                  THEN Append(stderr, <<"warning", <<"duproot", goroot>> >>)
                                  ELSE stderr
                     /\ lineNum' = lineNum + 1
                     /\ UNCHANGED << pc, fatal >>
  /\ UNCHANGED << overlay, config, flag, vi, runVars >>

\* Variant of TooFew for a loader that wants two variants.
TooFew_Two(n) == n < 2

\* The test on len(variants) that makes the loader give up.
TooFew(n) == n < 1

\* After the scanner loop: the checks on len(variants).
CheckCount ==
  /\ pc = "read"
  /\ lineIdx > Len(config)
  /\ IF TooFew(Len(variants))
     THEN /\ LogFatal("empty", << <<"fatal", <<"empty">> >> >>)
          /\ UNCHANGED vi
     ELSE /\ stderr' = IF Len(variants) = 1
                       THEN Append(stderr, <<"warning", <<"single">> >>)
                       ELSE stderr
          /\ pc' = "sanity"
          /\ vi' = 1
          /\ UNCHANGED fatal
  /\ UNCHANGED << overlay, config, flag, loaderVars, runVars >>

\* Variant of SanityPc for a check that reports the error and goes on.
SanityPc_NoExit(ok, last) == IF last THEN "perform" ELSE "sanity"

\* Where control goes after the sanity check of one variant: log.Fatalf
\* exits when the build command cannot be opened.
SanityPc(ok, last) ==
  IF ~ok THEN "exit" ELSE IF last THEN "perform" ELSE "sanity"

\* One iteration of the "Sanity checks, remark output" loop.
SanityCheck ==
  /\ pc = "sanity"
  /\ LET v == variants[vi]
         ok == v.goroot \in GoCmdOk
         last == vi = Len(variants)
     IN /\ pc' = SanityPc(ok, last)
        /\ fatal' = IF ok THEN fatal ELSE "nogocmd"
        /\ stderr' = Append(stderr, IF ok THEN <<"remark", <<vi - 1, v.tag, v.goroot>> >>
                                    ELSE <<"fatal", <<"nogocmd", v.goroot>> >>)
        /\ vi' = IF ok /\ ~last THEN vi + 1 ELSE 1
  /\ UNCHANGED << overlay, config, flag, loaderVars, runVars >>

\* ------------------------------------------------------ script generation
\* emitCleanScript: the text written to the clean script.
CleanScriptText ==
  << <<"#!/bin/sh">> >>
  \o (IF ~flag.dryrun
      THEN << <<"rm -rf ./_output/local/go/bin/", prog,
                " ./_output/local/bin/linux/amd64/", prog>> >>
      ELSE << >>)

\* emitScript(fn, v, extra): the text written to the build script.
ScriptText(v, extra) ==
  << <<"#!/bin/sh">>,
     <<"HERE=$(pwd)">>,
     <<"WARMUP=\"$1\"">>,
     <<"if [ \"$WARMUP\" = \"warmup\" ]; then">>,
     <<"  shift">>,
     <<"fi">>,
     <<"export INJECT=\"$*\"">>,
     <<"export GOCACHE=$HERE/_output/local/go/cache">>,
     <<"export GOPATH=$HERE/_output/local/go">>,
     <<"export PATH=\"">> \o v.goroot \o <<"/bin:${PATH}\"">> >>
  \o (IF ~flag.dryrun
      THEN (IF ~flag.build
            THEN << <<"if [ \"$WARMUP\" = \"warmup\" ]; then">>,
                    <<"  go install -i ", progpath>>,
                    <<"fi">> >>
            ELSE << >>)
           \o << <<"rm -f /tmp/", prog, ".">> \o v.tag >>
           \o (IF flag.build THEN << <<"go clean -cache">> >> ELSE << >>)
           \o << (IF flag.perflock THEN <<"perflock ">> ELSE << >>)
                 \o <<"go build -o /tmp/", prog, ".">> \o v.tag
                 \o <<" ">> \o extra \o <<" ", progpath>> >>
      ELSE << >>)

\* Variant of StripFlag for a second pass emitted without the flag.
StripFlag_None == << >>

\* The extra flag of the second (stripped-symbol) pass.
StripFlag == <<"-ldflags=\"-s -w\"">>

\* ------------------------------------------------------------- perform
\* The run tag: "relink", or "rebuild" with -build (first letter apart).
RunTag == IF flag.build THEN <<"r", "ebuild">> ELSE <<"r", "elink">>

\* bentag: "Benchmark" + uptag + "Kubelet".
BenTag == <<"Benchmark">> \o << ToUpper(RunTag[1]) >> \o Tail(RunTag) \o <<"Kubelet">>

\* Names of the two temporary files, as they appear in argument lists.
CleanName == << "$clean" >>

ScriptName == << "$script" >>

\* A trace line written only with -v.
Verb(s, msg) == IF flag.verb THEN Append(s, msg) ELSE s

\* Record of a launched process: what was run, for which variant, with which
\* arguments and environment, and the text of the script it was given.
Proc(kind, args, env, text) ==
  [kind |-> kind, v |-> vi, args |-> args, env |-> env, text |-> text]

\* perform, up to the first deferred Remove: create the clean script.
EmitClean ==
  /\ pc = "perform"
  /\ \E ok \in BOOLEAN :
       IF ok
       THEN /\ tmp' = [tmp EXCEPT !.clean = [exists |-> TRUE, text |-> CleanScriptText]]
            /\ stderr' = IF flag.preservetmp
                         THEN Append(stderr, <<"preserving", CleanName>>)
                         ELSE stderr
            /\ pc' = "mktmp"
            /\ UNCHANGED fatal
       ELSE /\ LogFatal("io", << <<"fatal", <<"io">> >> >>)
            /\ UNCHANGED tmp
  /\ UNCHANGED << overlay, config, flag, loaderVars, vi, it, fn, outf, fs, opened, procs,
                  acts, okTimed, closedSnap, pre >>

\* perform: create the (empty) temporary file of the build script.
MakeScriptTmp ==
  /\ pc = "mktmp"
  /\ \E ok \in BOOLEAN :
       IF ok
       THEN /\ tmp' = [tmp EXCEPT !.script = [exists |-> TRUE, text |-> << >>]]
            /\ stderr' = IF flag.preservetmp
                         THEN Append(stderr, <<"preserving", ScriptName>>)
                         ELSE stderr
            /\ pc' = "variant"
            /\ UNCHANGED fatal
       ELSE /\ LogFatal("io", << <<"fatal", <<"io">> >> >>)
            /\ UNCHANGED tmp
  /\ vi' = 1
  /\ UNCHANGED << overlay, config, flag, loaderVars, it, fn, outf, fs, opened, procs,
                  acts, okTimed, closedSnap, pre >>

\* perform returns: the deferred os.Remove calls run (script, then clean).
PerformReturn ==
  /\ pc = "variant"
  /\ vi > Len(variants)
  /\ tmp' = IF ~flag.preservetmp THEN [clean |-> NoScript, script |-> NoScript]
            ELSE tmp
  /\ pc' = "exit"
  /\ UNCHANGED << overlay, config, flag, loaderVars, fatal, stderr, vi, it, fn, outf, fs,
                  opened, procs, acts, okTimed, closedSnap, pre >>

\* ------------------------------------------------------- addGoMaxProcsEnv
NotGoMaxProcs(e) == e[1] # "GOMAXPROCS"

\* Variant of addGoMaxProcsEnv that keeps an existing GOMAXPROCS entry.
addGoMaxProcsEnv_KeepOld(env, gomaxp) ==
  (IF Len(env) = 0 THEN Ambient ELSE env) \o << <<"GOMAXPROCS", gomaxp>> >>

\* Variant of addGoMaxProcsEnv that drops the old entry and adds none.
addGoMaxProcsEnv_NoAppend(env, gomaxp) ==
  SelectSeq(IF Len(env) = 0 THEN Ambient ELSE env, NotGoMaxProcs)

\* addGoMaxProcsEnv(env, gomaxp); an empty env stands for os.Environ().
addGoMaxProcsEnv(env, gomaxp) ==
  LET base == IF Len(env) = 0 THEN Ambient ELSE env
  IN SelectSeq(base, NotGoMaxProcs) \o << <<"GOMAXPROCS", gomaxp>> >>

\* The environment a command runs in: cmd.Env, or the ambient one if nil.
EffectiveEnv(env) == IF env = << >> THEN Ambient ELSE env

\* Entries a base environment may hold, and the values of gomaxp passed.
EnvEntries == { <<"A", 1>>, <<"GOMAXPROCS", 4>>, <<"B", 2>>, <<"GOMAXPROCS", 8>> }

Parallelisms == { 2, 8 }

\* The non-empty base environments of at most MaxEnvLen entries.
EnvBases == UNION { [1..n -> EnvEntries] : n \in 1..MaxEnvLen }

\* A caller hands a base environment and a value to addGoMaxProcsEnv and
\* keeps the list that comes back; the base list is only read.
CallOverlay ==
  /\ pc = "overlay"
  /\ overlay' = [overlay EXCEPT !.out = addGoMaxProcsEnv(overlay.base, overlay.p),
                                !.called = TRUE]
  /\ pc' = "overlaid"
  /\ UNCHANGED << config, flag, loaderVars, fatal, stderr, vi, runVars >>

\* ------------------------------------------------------------------ runCmd
\* Variant of RecordLine with the count and the duration exchanged.
RecordLine_Swapped(name, took) == << name, took, 1, "ns/op" >>

\* fmt.Fprintf(outf, "%s 1 %d ns/op\n", name, took)
RecordLine(name, took) == << name, 1, took, "ns/op" >>

\* Variant of runCmd that prints the record before it looks at the error.
runCmd_WriteFirst(name, ok, took) ==
  [ launched |-> ~flag.dryrun,
    err |-> ~flag.dryrun /\ ~ok,
    trace |-> << >>,
    rec |-> << << name, 1, took, "ns/op" >> >> ]

\* Variant of runCmd that writes no record in a dry run.
runCmd_DryNoRecord(name, ok, took) ==
  [ launched |-> ~flag.dryrun,
    err |-> ~flag.dryrun /\ ~ok,
    trace |-> IF flag.dryrun THEN << <<"trace", "executing timing run">> >> ELSE << >>,
    rec |-> IF flag.dryrun \/ ~ok THEN << >> ELSE << << name, 1, took, "ns/op" >> >> ]

\* Variant of runCmd that runs the command without testing dryrunflag.
runCmd_AlwaysRun(name, ok, took) ==
  [ launched |-> TRUE,
    err |-> ~ok,
    trace |-> << >>,
    rec |-> IF ~ok THEN << >> ELSE << << name, 1, took, "ns/op" >> >> ]

\* runCmd(name, cmd, outf) when the command would end with ok and the clock
\* measures took: whether the command is launched, whether an error is
\* returned, what goes to stderr, and what is written to outf.
runCmd(name, ok, took) ==
  LET err == ~flag.dryrun /\ ~ok
  IN [ launched |-> ~flag.dryrun,
       err |-> err,
       trace |-> IF err THEN << >>
                 ELSE (IF flag.dryrun THEN << <<"trace", "executing timing run">> >>
                       ELSE IF flag.verb THEN << <<"trace", "output">> >>
                       ELSE << >>)
                      \o (IF flag.verb THEN << <<"took", took>> >> ELSE << >>),
       rec |-> IF err THEN << >> ELSE << RecordLine(name, took) >> ]

\* A record line as it appears on stderr.
OnStderr(line) == << "rec", line >>

\* ---------------------------------------------------------------- doVariant
\* Variant of FileName that leaves the tag out of the name.
FileName_NoTag(v, hash) == <<"out", ".">> \o hash \o <<".", "txt">>

\* fmt.Sprintf("out.%s.%s.txt", v.tag, hash)
FileName(v, hash) == <<"out", ".">> \o v.tag \o <<".">> \o hash \o <<".", "txt">>

\* Variant of OpenTrunc that opens without O_TRUNC: old content is kept.
OpenTrunc_NoTrunc(files, name) ==
  [ n \in DOMAIN files \cup { name } |-> IF n \in DOMAIN files THEN files[n] ELSE << >> ]

\* os.OpenFile(fn, O_WRONLY|O_CREATE|O_TRUNC): the file exists and is empty.
OpenTrunc(files, name) ==
  [ n \in DOMAIN files \cup { name } |-> IF n = name THEN << >> ELSE files[n] ]

\* Variant of AfterLoop1 that never enters the second loop.
AfterLoop1_NoStrip == "close"

\* Variant of Loop1Pc whose loop test is i <= numit.
Loop1Pc_OffByOne(i) ==
  IF i <= flag.numit THEN "tclean1"
  ELSE IF flag.nodebug THEN "emit2" ELSE "close"

\* Where the first timing loop goes when its counter is i.
AfterLoop1 == IF flag.nodebug THEN "emit2" ELSE "close"

Loop1Pc(i) == IF i < flag.numit THEN "tclean1" ELSE AfterLoop1

\* Where the second timing loop goes when its counter is i.
Loop2Pc(i) == IF i < flag.numit THEN "tclean2" ELSE "close"

\* strings.Fields(v.extras)
Args(v) == Fields(v.extras)

\* sargs: the build script followed by the variant's extra arguments.
Sargs(v) == << ScriptName >> \o Args(v)

\* perform's loop calls doVariant, which first emits the build script.
StartVariant ==
  /\ pc = "variant"
  /\ vi <= Len(variants)
  /\ \E ok \in BOOLEAN :
       IF ok
       THEN /\ tmp' = [tmp EXCEPT !.script =
                           [exists |-> TRUE, text |-> ScriptText(variants[vi], << >>)]]
            /\ stderr' = Verb(stderr, <<"trace", "starting variant">>)
            /\ pc' = "hash"
            /\ acts' = << "emit" >>
            /\ okTimed' = Append(okTimed, << >>)
            /\ UNCHANGED fatal
       ELSE /\ LogFatal("io", << <<"fatal", <<"io">> >> >>)
            /\ UNCHANGED << tmp, acts, okTimed >>
  /\ UNCHANGED << overlay, config, flag, loaderVars, vi, it, fn, outf, fs, opened,
                  procs, closedSnap, pre >>

\* grabVariantHash and the computation of fn.
ResolveHash ==
  /\ pc = "hash"
  /\ procs' = Append(procs, Proc("git", << <<"log">> >>, Ambient, << >>))
  /\ \E ok \in BOOLEAN, out \in GitOutputs :
       LET chunks == Split(out, " ")
       IN IF ~ok
          THEN /\ LogFatal("git", << <<"fatal", <<"git">> >> >>)
               /\ UNCHANGED << fn, acts >>
          ELSE IF Len(chunks) = 0 \/ chunks[1] = << >>
          THEN /\ LogFatal("githash", << <<"fatal", <<"githash">> >> >>)
               /\ UNCHANGED << fn, acts >>
          ELSE /\ fn' = FileName(variants[vi], chunks[1])
               /\ acts' = Append(acts, "hash")
               /\ pc' = "open"
               /\ UNCHANGED << fatal, stderr >>
  /\ UNCHANGED << overlay, config, flag, loaderVars, tmp, vi, it, outf, fs, opened,
                  okTimed, closedSnap, pre >>

\* "Open output file": the file itself, or os.Stderr in a dry run.
OpenOutput ==
  /\ pc = "open"
  /\ IF ~flag.dryrun
     THEN \E ok \in BOOLEAN :
            IF ok
            THEN /\ fs' = OpenTrunc(fs, fn)
                 /\ outf' = fn
                 /\ opened' = Append(opened, fn)
                 /\ acts' = Append(acts, "open")
                 /\ stderr' = Verb(stderr, <<"trace", "performing clean and/or warmup runs">>)
                 /\ pc' = "clean0"
                 /\ UNCHANGED fatal
            ELSE /\ LogFatal("io", << <<"fatal", <<"io">> >> >>)
                 /\ UNCHANGED << fs, outf, opened, acts >>
     ELSE /\ outf' = StderrF
          /\ acts' = Append(acts, "stderr")
          /\ stderr' = Verb(Append(stderr, <<"dryrun open", fn>>),
                            <<"trace", "performing clean and/or warmup runs">>)
          /\ pc' = "clean0"
          /\ UNCHANGED << fatal, fs, opened >>
  /\ UNCHANGED << overlay, config, flag, loaderVars, tmp, vi, it, fn, procs, okTimed,
                  closedSnap, pre >>

\* An untimed run of a script: exec.Command(sh, args...).CombinedOutput().
\* On success the step is recorded, stderr becomes okerr and control goes to
\* next; on failure failmsgs and the log.Fatal diagnostic are written.
Untimed(kind, args, text, step, next, okerr, failmsgs) ==
  /\ procs' = Append(procs, Proc(kind, args, Ambient, text))
  /\ \E ok \in BOOLEAN :
       IF ok
       THEN /\ acts' = Append(acts, step)
            /\ pc' = next
            /\ stderr' = okerr
            /\ UNCHANGED fatal
       ELSE /\ LogFatal(kind, failmsgs \o << <<"fatal", <<kind>> >> >>)
            /\ UNCHANGED acts

\* The initial clean.
InitialClean ==
  /\ pc = "clean0"
  /\ Untimed("clean", << CleanName >>, tmp.clean.text, "clean",
             IF ~flag.build THEN "warmup" ELSE "prime",
             stderr, << <<"trace", "initial clean failed">> >>)
  /\ UNCHANGED << overlay, config, flag, loaderVars, tmp, vi, it, fn, outf, fs, opened,
                  okTimed, closedSnap, pre >>

\* The warmup run (relink mode only).
Warmup ==
  /\ pc = "warmup"
  /\ Untimed("warmup", << ScriptName, <<"warmup">> >> \o Args(variants[vi]),
             tmp.script.text, "warmup", "prime",
             stderr, << <<"trace", "initial run failed">> >>)
  /\ UNCHANGED << overlay, config, flag, loaderVars, tmp, vi, it, fn, outf, fs, opened,
                  okTimed, closedSnap, pre >>

\* The untimed run before the timing loop; then the loop is entered.
Prime ==
  /\ pc = "prime"
  /\ Untimed("prime", Sargs(variants[vi]), tmp.script.text, "prime", Loop1Pc(0),
             Verb(stderr, <<"trace", "exe.Command args">>),
             Verb(<< >>, <<"trace", "exe.Command args">>)
             \o << <<"trace", "initial run failed">> >>)
  /\ it' = 0
  /\ UNCHANGED << overlay, config, flag, loaderVars, tmp, vi, fn, outf, fs, opened,
                  okTimed, closedSnap, pre >>

\* The clean that precedes a timed run; the error of a failed clean is fatal.
TimedClean(next, verbmsg) ==
  /\ Untimed("clean", << CleanName >>, tmp.clean.text, "clean", next,
             Verb(stderr, verbmsg), Verb(<< >>, verbmsg))
  /\ UNCHANGED << overlay, config, flag, loaderVars, tmp, vi, it, fn, outf, fs, opened,
                  okTimed, closedSnap, pre >>

\* The timed run of the loop body: cmd is built from args, gets the
\* GOMAXPROCS overlay when the variant asks for one, and goes to runCmd.
TimedRun(name, args, next, verbmsgs) ==
  LET v == variants[vi]
      env == IF v.gomaxp # 0 THEN addGoMaxProcsEnv(<< >>, v.gomaxp) ELSE << >>
      base == stderr \o verbmsgs
  IN \E ok \in BOOLEAN, took \in Durations :
       LET r == runCmd(name, ok, took)
           toStderr == outf = StderrF
           newerr == base \o r.trace
                     \o (IF toStderr THEN [i \in 1..Len(r.rec) |-> OnStderr(r.rec[i])]
                         ELSE << >>)
       IN /\ pre' = [fs |-> fs, stderr |-> base]
          /\ procs' = IF r.launched
                      THEN Append(procs, Proc("timed", args, EffectiveEnv(env),
                                              tmp.script.text))
                      ELSE procs
          /\ fs' = IF toStderr THEN fs ELSE [fs EXCEPT ![outf] = @ \o r.rec]
          /\ IF r.err
             THEN /\ fatal' = "timed"
                  /\ pc' = "exit"
                  /\ stderr' = Append(newerr, <<"fatal", <<"timed">> >>)
                  /\ UNCHANGED << it, acts, okTimed >>
             ELSE /\ stderr' = newerr
                  /\ acts' = Append(acts, IF r.launched THEN "timed" ELSE "drytimed")
                  /\ okTimed' = IF r.launched
                                THEN [okTimed EXCEPT ![vi] = Append(@, <<name, took>>)]
                                ELSE okTimed
                  /\ it' = it + 1
                  /\ pc' = next
                  /\ UNCHANGED fatal
          /\ UNCHANGED << overlay, config, flag, loaderVars, tmp, vi, fn, outf, opened,
                          closedSnap >>

\* First timing loop: clean.
TimedClean1 ==
  /\ pc = "tclean1"
  /\ TimedClean("timed1", <<"trace", "timing run">>)

\* First timing loop: the timed run, with sargs and name bentag.
TimedRun1 ==
  /\ pc = "timed1"
  /\ TimedRun(BenTag, Sargs(variants[vi]), Loop1Pc(it + 1),
              Verb(<< >>, <<"trace", "kicking off timing run">>))

\* The build script is emitted again, with the -s -w linker flags.
EmitStrip ==
  /\ pc = "emit2"
  /\ \E ok \in BOOLEAN :
       IF ok
       THEN /\ tmp' = [tmp EXCEPT !.script =
                           [exists |-> TRUE, text |-> ScriptText(variants[vi], StripFlag)]]
            /\ acts' = Append(acts, "emitstrip")
            /\ it' = 0
            /\ pc' = Loop2Pc(0)
            /\ UNCHANGED << fatal, stderr >>
       ELSE /\ LogFatal("io", << <<"fatal", <<"io">> >> >>)
            /\ UNCHANGED << tmp, acts, it >>
  /\ UNCHANGED << overlay, config, flag, loaderVars, vi, fn, outf, fs, opened, procs,
                  okTimed, closedSnap, pre >>

\* Second timing loop: clean.
TimedClean2 ==
  /\ pc = "tclean2"
  /\ TimedClean("timed2", <<"trace", "timing run for nodebug variant">>)

\* Second timing loop: the timed run, built from the script alone, with
\* name bentag + "-WithoutDebug".
TimedRun2 ==
  /\ pc = "timed2"
  /\ TimedRun(BenTag \o <<"-WithoutDebug">>, << ScriptName >>, Loop2Pc(it + 1), << >>)

\* Variant of EndVariant for a doVariant that returns without closing.
EndVariant_NoClose ==
  /\ pc = "close"
  /\ vi' = vi + 1
  /\ pc' = "variant"
  /\ UNCHANGED << overlay, config, flag, loaderVars, fatal, stderr, tmp, it, fn, fs,
                  opened, procs, okTimed, pre, acts, closedSnap, outf >>

\* End of doVariant: outf is closed unless it is os.Stderr; perform's loop
\* moves to the next variant.
EndVariant ==
  /\ pc = "close"
  /\ IF ~flag.dryrun
     THEN /\ acts' = Append(acts, "close")
          /\ closedSnap' = Append(closedSnap, [name |-> outf, text |-> fs[outf]])
     ELSE UNCHANGED << acts, closedSnap >>
  /\ outf' = NoFile
  /\ vi' = vi + 1
  /\ pc' = "variant"
  /\ UNCHANGED << overlay, config, flag, loaderVars, fatal, stderr, tmp, it, fn, fs,
                  opened, procs, okTimed, pre >>

\* ------------------------------------------------------------ specification
Next ==
  \/ OpenConfig
  \/ ReadLine
  \/ CheckCount
  \/ SanityCheck
  \/ EmitClean
  \/ MakeScriptTmp
  \/ StartVariant
  \/ ResolveHash
  \/ OpenOutput
  \/ InitialClean
  \/ Warmup
  \/ Prime
  \/ TimedClean1
  \/ TimedRun1
  \/ EmitStrip
  \/ TimedClean2
  \/ TimedRun2
  \/ EndVariant
  \/ PerformReturn

Spec == Init /\ [][Next]_vars

\* addGoMaxProcsEnv on its own: any base environment, any value.
InitOverlay ==
  /\ config = << >>
  /\ flag = [verb |-> FALSE, build |-> FALSE, numit |-> 0, nodebug |-> FALSE,
             dryrun |-> FALSE, perflock |-> FALSE, preservetmp |-> FALSE]
  /\ pc = "overlay"
  /\ lineIdx = 1
  /\ lineNum = 1
  /\ variants = << >>
  /\ tags = { }
  /\ roots = { }
  /\ fatal = "none"
  /\ stderr = << >>
  /\ tmp = [clean |-> NoScript, script |-> NoScript]
  /\ vi = 1
  /\ it = 0
  /\ fn = NoFile
  /\ outf = NoFile
  /\ fs = InitFs
  /\ opened = << >>
  /\ procs = << >>
  /\ acts = << >>
  /\ okTimed = << >>
  /\ closedSnap = << >>
  /\ pre = [fs |-> InitFs, stderr |-> << >>]
  /\ \E b \in EnvBases, p \in Parallelisms :
       overlay = [base |-> b, p |-> p, out |-> << >>, called |-> FALSE]

NextOverlay == CallOverlay

SpecOverlay == InitOverlay /\ [][NextOverlay]_vars

\* ------------------------------------------------------------- properties
Last(q) == q[Len(q)]

RECURSIVE Rep(_, _)
\* n copies of the sequence q, one after the other.
Rep(n, q) == IF n <= 0 THEN << >> ELSE q \o Rep(n - 1, q)

\* The sequence of steps of one variant when every subprocess succeeds,
\* given how the open, the timed build and the close show up.
StepsOfVariant(open, timed, close) ==
  << "emit", "hash" >> \o open \o << "clean" >>
  \o (IF flag.build THEN << >> ELSE << "warmup" >>)
  \o << "prime" >>
  \o Rep(flag.numit, << "clean", timed >>)
  \o (IF flag.nodebug
      THEN << "emitstrip" >> \o Rep(flag.numit, << "clean", timed >>)
      ELSE << >>)
  \o close

\* doVariant has returned for the variant acts is about.
VariantDone == (pc = "variant" /\ vi > 1) \/ (pc = "exit" /\ fatal = "none")

\* The steps taken so far are an initial part of expected, all of it once
\* the variant is done, and a timed build directly follows a clean.
OrderedAs(expected) ==
  /\ IsPrefix(acts, expected)
  /\ (VariantDone => acts = expected)
  /\ \A i \in 1..Len(acts) :
       acts[i] \in { "timed", "drytimed" } => i > 1 /\ acts[i - 1] = "clean"

\* C1 as stated: for every variant the steps are, in this order, emit the
\* script without extra flags, resolve the revision, open the output file,
\* clean, warmup (relink mode only), prime, numit times (clean, timed build),
\* with -x the script with the strip flag and numit times (clean, timed
\* build) again, then close.
C1_AsClaimed == OrderedAs(StepsOfVariant(<< "open" >>, "timed", << "close" >>))

\* C1, amended: outside a dry run the steps of every variant are exactly
\* the claimed ones in the claimed order; in a dry run the order is the
\* same but os.Stderr is substituted for the output file, the timed builds
\* are not launched, and nothing is closed.
C1_StepOrder ==
  OrderedAs(IF flag.dryrun
            THEN StepsOfVariant(<< "stderr" >>, "drytimed", << >>)
            ELSE StepsOfVariant(<< "open" >>, "timed", << "close" >>))

C1_Witness ==
  /\ pc = "variant" /\ vi = 3
  /\ ~flag.dryrun /\ ~flag.build /\ flag.nodebug /\ flag.numit = 2
  /\ Len(acts) = 16

\* Normal termination of the whole run.
Finished == pc = "exit" /\ fatal = "none"

\* C2: a run that is not a dry run, without -x and with numit >= 0, ends
\* normally with one output file created per variant, each holding numit
\* lines that all carry the benchmark name of the mode.
C2_FilesAndLines ==
  (Finished /\ ~flag.dryrun /\ ~flag.nodebug /\ flag.numit >= 0) =>
    /\ Len(opened) = Len(variants)
    /\ Cardinality(Range(opened)) = Len(variants)
    /\ \A n \in Range(opened) :
         /\ n \in DOMAIN fs
         /\ Len(fs[n]) = flag.numit
         /\ \A i \in 1..Len(fs[n]) :
              fs[n][i][1] = IF flag.build
                            THEN << "Benchmark", "R", "ebuild", "Kubelet" >>
                            ELSE << "Benchmark", "R", "elink", "Kubelet" >>

C2_Witness ==
  /\ Finished /\ ~flag.dryrun /\ ~flag.nodebug
  /\ flag.numit = 2 /\ Len(variants) = 2
  /\ << "out", ".", "a", ".", "f", "0", ".", "txt" >> \in Range(opened)

\* The name of a line carries the -WithoutDebug suffix.
Suffixed(line) == Last(line[1]) = "-WithoutDebug"

\* C3: with -x, outside a dry run and with numit >= 0, a closed output file
\* holds 2 * numit lines, the first numit with the base name and the last
\* numit with the suffixed name; and in no output file of the run does a
\* suffixed line come before a base-name line.
C3_BaseThenStripped ==
  (~flag.dryrun /\ flag.nodebug /\ flag.numit >= 0) =>
    /\ \A j \in 1..Len(closedSnap) :
         LET text == closedSnap[j].text
         IN /\ Len(text) = 2 * flag.numit
            /\ \A i \in 1..Len(text) :
                 /\ i <= flag.numit => text[i][1] = BenTag
                 /\ i > flag.numit => text[i][1] = BenTag \o << "-WithoutDebug" >>
    /\ \A n \in Range(opened) :
         \A i, k \in 1..Len(fs[n]) :
           i < k => ~(Suffixed(fs[n][i]) /\ ~Suffixed(fs[n][k]))

C3_Witness ==
  /\ ~flag.dryrun /\ flag.nodebug /\ flag.numit = 2
  /\ Len(closedSnap) = 2
  /\ Len(closedSnap[2].text) = 4

\* C4: when a timed build fails in variant vi the run is over: nothing can
\* happen any more, the output files are as they were when runCmd was
\* called (so the failed invocation left no line), the file of variant vi
\* holds a line per earlier successful timed build only, no later variant
\* was started, and every earlier variant's file is as it was closed.
C4_TimedFailureAborts ==
  fatal = "timed" =>
    /\ pc = "exit"
    /\ ~ENABLED Next
    /\ fs = pre.fs
    /\ Len(opened) = vi /\ Len(okTimed) = vi
    /\ outf = opened[vi]
    /\ Len(fs[outf]) = Len(okTimed[vi])
    /\ Len(closedSnap) = vi - 1
    /\ \A j \in 1..(vi - 1) :
         /\ closedSnap[j].name = opened[j]
         /\ fs[opened[j]] = closedSnap[j].text

C4_Witness ==
  /\ fatal = "timed" /\ pc = "exit"
  /\ vi = 2 /\ Len(okTimed[2]) = 1
  /\ Len(closedSnap[1].text) = 2

\* C5: outside a dry run the output file of every variant holds, in order,
\* exactly the lines "<n> 1 <d> ns/op" of that variant's successful timed
\* invocations (name n, duration d), whatever else has been run.
C5_LinePerTimedRun ==
  ~flag.dryrun =>
    \A j \in 1..Len(opened) :
      /\ j <= Len(okTimed)
      /\ fs[opened[j]] = [ i \in 1..Len(okTimed[j]) |->
                             << okTimed[j][i][1], 1, okTimed[j][i][2], "ns/op" >> ]

C5_Witness ==
  /\ ~flag.dryrun /\ Len(opened) = 2
  /\ Len(okTimed[1]) = 4 /\ Len(okTimed[2]) = 3
  /\ pc = "tclean2"

\* The entries of stderr that are timing records.
IsRecord(e) == e[1] = "rec"

\* C6 as stated: in a dry run no call of runCmd writes a timing record to
\* its destination stream (os.Stderr in a dry run).
C6_AsClaimed == flag.dryrun => SelectSeq(stderr, IsRecord) = << >>

\* runCmd has just returned without error and nothing has run since.
JustTimed ==
  /\ pc \in { "tclean1", "tclean2", "emit2", "close" }
  /\ acts # << >>
  /\ Last(acts) \in { "timed", "drytimed" }

\* C6, amended: in a dry run a call of runCmd writes exactly one timing
\* record "<name> 1 <d> ns/op" to its destination stream, which is
\* os.Stderr; before the record the call writes trace output only, and no
\* output file is created or written.
C6_DryRunRecordOnStderr ==
  (flag.dryrun /\ JustTimed) =>
    LET added == SubSeq(stderr, Len(pre.stderr) + 1, Len(stderr))
        rec == Last(added)
    IN /\ IsPrefix(pre.stderr, stderr)
       /\ Len(added) >= 1
       /\ IsRecord(rec)
       /\ rec[2][1] \in { BenTag, BenTag \o << "-WithoutDebug" >> }
       /\ rec[2][2] = 1 /\ rec[2][3] \in Durations /\ rec[2][4] = "ns/op"
       /\ \A i \in 1..(Len(added) - 1) : added[i][1] \in { "trace", "took" }
       /\ Len(SelectSeq(stderr, IsRecord)) = Len(SelectSeq(pre.stderr, IsRecord)) + 1
       /\ fs = InitFs /\ opened = << >>

C6_Witness ==
  /\ flag.dryrun /\ flag.nodebug /\ flag.verb
  /\ pc = "close" /\ it = 2 /\ vi = 2
  /\ Last(acts) = "drytimed"

\* C7: in a dry run no timed build process is ever started, for any variant
\* and in either timing loop.
C7_DryRunLaunchesNoTimedBuild ==
  flag.dryrun => \A i \in 1..Len(procs) : procs[i].kind # "timed"

C7_Witness ==
  /\ flag.dryrun /\ flag.nodebug /\ flag.numit = 2
  /\ Finished /\ Len(variants) = 2
  /\ Len(SelectSeq(acts, LAMBDA a : a = "drytimed")) = 4

\* The kinds of fatal error that are configuration errors.
CfgErrs == { "malformed", "badgomaxp", "invalidgomaxp", "duptag", "empty", "nogocmd" }

\* C8: once a configuration error has been reported the run is over, and
\* no process was launched, no script written and no output file created or
\* changed.
C8_ConfigErrorBeforeAnyEffect ==
  fatal \in CfgErrs =>
    /\ pc = "exit"
    /\ procs = << >>
    /\ ~tmp.clean.exists /\ ~tmp.script.exists
    /\ opened = << >> /\ fs = InitFs

C8_Witness ==
  /\ pc = "exit" /\ fatal = "nogocmd"
  /\ Len(variants) = 2 /\ procs = << >>

\* The usable lines of a file: neither empty nor starting with '#'.
Usable(lines) == SelectSeq(lines, LAMBDA l : l # << >> /\ l[1] # "#")

\* Two usable lines of the file have the same first field.
SharesTag(lines) ==
  \E i, j \in 1..Len(Usable(lines)) :
    i # j /\ Split(Usable(lines)[i], ":")[1] = Split(Usable(lines)[j], ":")[1]

\* The files explored in which two usable lines share a tag.
TagSharingConfigs == { c \in Configs : SharesTag(c) }

\* readvariants has returned (the sanity loop is over).
Loaded == pc \notin { "start", "read", "sanity" } /\ fatal \notin CfgErrs \cup { "noconfig" }

\* C9: a file in which two usable lines share a tag never gets past the
\* loader, and once the loader has returned the tags of the variants are
\* pairwise distinct.
C9_TagsDistinct ==
  /\ config \in TagSharingConfigs => ~Loaded /\ (pc = "exit" => fatal \in CfgErrs \cup { "noconfig" })
  /\ Loaded => \A i, j \in 1..Len(variants) :
                 i # j => variants[i].tag # variants[j].tag

C9_Witness ==
  /\ pc = "exit" /\ fatal = "duptag"
  /\ config \in TagSharingConfigs /\ Len(variants) = 2

\* C10 as stated: a variant loaded from a line of four fields has a
\* parallelism of at least 1, its fourth field parsing as that integer.
C10_AsClaimed ==
  Loaded =>
    \A i \in 1..Len(variants) :
      LET tokens == Split(Usable(config)[i], ":")
      IN Len(tokens) = 4 =>
           /\ variants[i].gomaxp >= 1
           /\ Sscanf_d(tokens[4]).ok
           /\ Sscanf_d(tokens[4]).val = variants[i].gomaxp

RECURSIVE DecVal(_)
\* The number a string of decimal digits writes.
DecVal(s) ==
  IF s = << >> THEN 0
  ELSE DecVal(SubSeq(s, 1, Len(s) - 1)) * 10 + DigitVal(Last(s))

\* A line of two, three or four fields, the fourth a decimal number >= 1.
WellFormedLine(l) ==
  LET t == Split(l, ":")
  IN /\ Len(t) \in { 2, 3, 4 }
     /\ Len(t) = 4 => /\ t[4] # << >>
                      /\ \A k \in 1..Len(t[4]) : t[4][k] \in Digits
                      /\ DecVal(t[4]) >= 1

\* The variant a well-formed line describes.
VariantOfLine(l) ==
  LET t == Split(l, ":")
  IN [tag |-> t[1], goroot |-> t[2],
      extras |-> IF Len(t) >= 3 THEN t[3] ELSE << >>,
      gomaxp |-> IF Len(t) = 4 THEN DecVal(t[4]) ELSE 0]

\* Every usable line is well-formed, tags are pairwise distinct, and the
\* go command of every toolchain root can be opened.
Good(lines) ==
  /\ \A i \in 1..Len(Usable(lines)) :
       /\ WellFormedLine(Usable(lines)[i])
       /\ Split(Usable(lines)[i], ":")[2] \in GoCmdOk
  /\ ~SharesTag(lines)

GoodConfigs == { c \in Configs : Good(c) }

GoodConfig == config \in GoodConfigs

\* The variants the usable lines of a good file describe, in file order.
ExpectedVariants ==
  [c \in GoodConfigs |-> [i \in 1..Len(Usable(c)) |-> VariantOfLine(Usable(c)[i])]]

\* Two usable lines of the file have the same second field.
SharesRoot(lines) ==
  \E i, j \in 1..Len(Usable(lines)) :
    i # j /\ Split(Usable(lines)[i], ":")[2] = Split(Usable(lines)[j], ":")[2]

\* The good files in which two usable lines share a toolchain root.
RootSharingConfigs == { c \in GoodConfigs : SharesRoot(c) }

\* stderr holds the warning about a toolchain root used twice.
WarnedDupRoot ==
  \E k \in 1..Len(stderr) : stderr[k][1] = "warning" /\ stderr[k][2][1] = "duproot"

\* C11: for a file that could be opened and whose usable lines are all
\* well-formed, with distinct tags and openable go commands, the variants
\* are, from the end of the scanner loop on and for the rest of the run,
\* exactly the variants the usable lines describe, in file order (third
\* field or "" as extras, fourth field or 0 as gomaxp); no configuration
\* error is reported, and lines sharing a root only produce a warning.
C11_OneVariantPerUsableLine ==
  (GoodConfig /\ fatal # "noconfig") =>
    /\ fatal \notin CfgErrs \ { "empty" }
    /\ pc = "read" => IsPrefix(variants, ExpectedVariants[config])
    /\ pc \notin { "start", "read" } =>
         /\ variants = ExpectedVariants[config]
         /\ config \in RootSharingConfigs => WarnedDupRoot

C11_Witness ==
  /\ Finished /\ GoodConfig /\ config \in RootSharingConfigs
  /\ Len(variants) = 2 /\ variants[1].gomaxp = 2 /\ variants[2].extras = << >>

\* The number of usable lines of each file.
UsableCount == [c \in Configs |-> Len(Usable(c))]

\* stderr holds the warning that there is a single variant.
WarnedSingle ==
  \E k \in 1..Len(stderr) : stderr[k][1] = "warning" /\ stderr[k][2][1] = "single"

\* C12: a file without usable lines never gets past the loader: the run
\* ends with a fatal error; a file that was opened and has exactly one
\* usable line, a valid one, loads without that error, the loader warns
\* about the single variant, and a run that ends normally has processed
\* exactly that one variant.
C12_ZeroFatalOneWarns ==
  /\ UsableCount[config] = 0 =>
       \/ pc \in { "start", "read" }
       \/ pc = "exit" /\ fatal \in { "noconfig", "empty" }
  /\ (UsableCount[config] = 1 /\ GoodConfig /\ fatal # "noconfig") =>
       /\ fatal \notin CfgErrs
       /\ pc \notin { "start", "read" } => Len(variants) = 1 /\ WarnedSingle
       /\ Finished => /\ Len(okTimed) = 1
                      /\ vi = 2
                      /\ acts # << >> /\ acts[1] = "emit"

C12_Witness ==
  /\ Finished /\ UsableCount[config] = 1 /\ Len(config) = 3
  /\ WarnedSingle /\ Len(okTimed) = 1

\* The positions of a list of entries that set GOMAXPROCS.
GoMaxProcsAt(env) == { k \in 1..Len(env) : env[k][1] = "GOMAXPROCS" }

RECURSIVE OtherEntries(_)
\* The entries of a list that do not set GOMAXPROCS, in their order.
OtherEntries(env) ==
  IF env = << >> THEN << >>
  ELSE IF Head(env)[1] = "GOMAXPROCS" THEN OtherEntries(Tail(env))
  ELSE << Head(env) >> \o OtherEntries(Tail(env))

\* The list returned for a non-empty base list and a value p.
OverlayOf(out, base, p) ==
  /\ Cardinality(GoMaxProcsAt(out)) = 1
  /\ Last(out) = << "GOMAXPROCS", p >>
  /\ SubSeq(out, 1, Len(out) - 1) = OtherEntries(base)

\* C13: addGoMaxProcsEnv called with a non-empty base list and a value p
\* returns a list with exactly one GOMAXPROCS entry, which is its last
\* element and has the value p, the other elements being the entries of
\* the base list that do not set GOMAXPROCS, in their order; the base list
\* is the same after the call as before it.
C13_OverlayResult ==
  /\ [](overlay.called => OverlayOf(overlay.out, overlay.base, overlay.p))
  /\ [][overlay'.base = overlay.base /\ overlay'.p = overlay.p]_vars

C13_Witness ==
  /\ overlay.called
  /\ overlay.base = << <<"A", 1>>, <<"GOMAXPROCS", 4>>, <<"B", 2>> >>
  /\ overlay.p = 8
  /\ overlay.out = << <<"A", 1>>, <<"B", 2>>, <<"GOMAXPROCS", 8>> >>

\* The output file an earlier run of the harness left behind.
StaleFile == <<"out", ".", "a", ".", "f", "0", ".", "txt">>

\* C14 as stated: no step deletes an output file, and after every step a
\* file's content starts with the content it had before the step, the
\* content it held when the harness opened it included.
C14_AsClaimed ==
  [][\A n \in DOMAIN fs : n \in DOMAIN fs' /\ IsPrefix(fs[n], fs'[n])]_vars

\* C14, amended: no step deletes an output file; a file the run has opened
\* only grows from then on, each step leaving its earlier content as a
\* prefix; a file the run has not opened keeps its content, except that the
\* step opening it empties it (the content of an earlier run is dropped).
C14_AppendOnlyOnceOpened ==
  [][\A n \in DOMAIN fs :
       /\ n \in DOMAIN fs'
       /\ IF n \in Range(opened)
          THEN IsPrefix(fs[n], fs'[n])
          ELSE \/ fs'[n] = fs[n]
               \/ fs'[n] = << >> /\ opened' = Append(opened, n)]_vars

C14_Witness ==
  /\ Len(opened) = 2 /\ opened[2] = StaleFile
  /\ Len(fs[StaleFile]) = 2
  /\ StaleLine \notin Range(fs[StaleFile])
  /\ Len(fs[opened[1]]) = 2 /\ pc = "exit"

\* outf is an output file (neither unset nor os.Stderr).
FileOpen == outf \notin { NoFile, StderrF }

\* The name n is that of an output file of variant k.
OwnedBy(n, k) ==
  /\ k \in 1..Len(variants)
  /\ IsPrefix(<<"out", ".">> \o variants[k].tag \o <<".">>, n)

\* Control is inside doVariant, between the open and the close.
InPhases ==
  pc \in { "clean0", "warmup", "prime", "tclean1", "timed1", "emit2",
           "tclean2", "timed2", "close" }

\* C15: at most one output file is open, and only between the open and the
\* close of the variant being processed, whose file it is; when the loop
\* over the variants is about to start the next variant, and while that
\* variant's script is generated, every file opened so far has been closed;
\* a closed file keeps the content it had when it was closed; and a step
\* creates or changes a file only if it is a file of the variant being
\* processed.
C15_FileWithinOwnPhases ==
  /\ [](/\ Len(opened) - Len(closedSnap) = (IF FileOpen THEN 1 ELSE 0)
        /\ FileOpen => /\ InPhases \/ pc = "exit"
                       /\ outf = fn
                       /\ outf = Last(opened)
                       /\ Len(opened) = vi
                       /\ OwnedBy(outf, vi)
        /\ pc \in { "variant", "hash", "open" } => ~FileOpen
        /\ \A k \in 1..Len(closedSnap) :
             /\ closedSnap[k].name = opened[k]
             /\ fs[closedSnap[k].name] = closedSnap[k].text
             /\ OwnedBy(closedSnap[k].name, k))
  /\ [][\A n \in DOMAIN fs' :
          (n \notin DOMAIN fs \/ fs'[n] # fs[n]) =>
             /\ OwnedBy(n, vi)
             /\ \A k \in 1..Len(variants) : k # vi => ~OwnedBy(n, k)]_vars

C15_Witness ==
  /\ vi = 2 /\ FileOpen /\ outf = opened[2]
  /\ Len(fs[outf]) >= 1
  /\ Len(closedSnap) = 1 /\ Len(closedSnap[1].text) >= 1

\* C16 as stated: when the loader gives up on a usable line whose field
\* count is not 2, 3 or 4, the line number in its message is the 1-based
\* position of that line in the file.
C16_AsClaimed ==
  fatal = "malformed" =>
    /\ Last(stderr)[2][1] = "malformed"
    /\ Last(stderr)[2][2] = lineIdx - 1

\* The argument list args ends with the tokens of the extras of variant k.
EndsWithExtras(args, k) ==
  LET e == Fields(variants[k].extras)
  IN /\ Len(args) >= 1 + Len(e)
     /\ SubSeq(args, Len(args) - Len(e) + 1, Len(args)) = e

\* C17 as stated: every run of the build script for a variant (warmup,
\* prime, and the timed runs of both timing loops) gets the tokens of the
\* variant's extra build arguments as arguments.
C17_AsClaimed ==
  \A k \in 1..Len(procs) :
    procs[k].kind \in { "warmup", "prime", "timed" } =>
      /\ procs[k].args[1] = ScriptName
      /\ EndsWithExtras(procs[k].args, procs[k].v)

\* A script line that puts a toolchain on the search path.
IsPathLine(l) == l # << >> /\ l[1] = "export PATH=\""

\* A script line that builds the program into an output binary.
IsBuildLine(l) == "go build -o /tmp/" \in Range(l)

\* The build line l writes the binary /tmp/kubelet.<tag of v>.
BuildsFor(l, v) ==
  \E i \in 1..Len(l) :
    /\ l[i] = "go build -o /tmp/"
    /\ Len(l) >= i + 3 + Len(v.tag)
    /\ SubSeq(l, i + 1, i + 3 + Len(v.tag)) = <<"kubelet", ".">> \o v.tag \o <<" ">>

\* The line carries the linker flags that strip the debug information.
Stripped(l) == "-ldflags=\"-s -w\"" \in Range(l)

\* The k-th process is a timed run of the second loop of its variant: more
\* than numit timed runs of that variant have been launched up to it.
InStrippedPhase(k) ==
  /\ procs[k].kind = "timed"
  /\ Cardinality({ j \in 1..k : procs[j].kind = "timed" /\ procs[j].v = procs[k].v })
       > flag.numit

\* The script text run by the k-th process was generated for its variant.
ScriptIsOwn(k) ==
  LET v == variants[procs[k].v]
      text == procs[k].text
      path == { i \in 1..Len(text) : IsPathLine(text[i]) }
      build == { i \in 1..Len(text) : IsBuildLine(text[i]) }
  IN /\ Cardinality(path) = 1
     /\ \A i \in path :
          text[i] = <<"export PATH=\"">> \o v.goroot \o <<"/bin:${PATH}\"">>
     /\ IF flag.dryrun
        THEN build = { }
        ELSE /\ Cardinality(build) = 1
             /\ \A i \in build : /\ BuildsFor(text[i], v)
                                 /\ Stripped(text[i]) <=> InStrippedPhase(k)

C19_OverlayOnlyWhenParallelismSet ==
  \A k \in 1..Len(procs) :
    LET g == variants[procs[k].v].gomaxp
    IN IF procs[k].kind = "timed" /\ g # 0
       THEN /\ OverlayOf(procs[k].env, Ambient, g)
            /\ procs[k].env # Ambient
       ELSE procs[k].env = Ambient

C19_Witness ==
  /\ Len(variants) = 2 /\ variants[1].gomaxp = 2 /\ variants[2].gomaxp = 0
  /\ flag.nodebug /\ flag.numit = 1 /\ Finished
  /\ Len(SelectSeq(procs, LAMBDA p : p.kind = "timed" /\ p.v = 1
                                      /\ p.env = << <<"A", 1>>, <<"B", 2>>,
                                                    <<"GOMAXPROCS", 2>> >>)) = 2
  /\ Len(SelectSeq(procs, LAMBDA p : p.kind = "timed" /\ p.v = 2
                                      /\ p.env = Ambient)) = 2

\* The process has ended after perform created both temporary scripts:
\* normally, or by a fatal error inside the phases of some variant.
ExitedAfterScripts ==
  /\ pc = "exit"
  /\ Finished \/ (fatal \notin CfgErrs \cup { "none", "noconfig" } /\ acts # << >>)

\* C20 as stated: at process exit, after normal completion or after a fatal
\* error in the phases of a variant, neither temporary script exists when
\* -preservetmp is off, and both exist when it is on.
C20_AsClaimed ==
  ExitedAfterScripts =>
    /\ tmp.clean.exists = flag.preservetmp
    /\ tmp.script.exists = flag.preservetmp

====
